---- MODULE Spec2Model ----
(***************************************************************************)
(* A model of pyUSID/io/io_utils.py: the quantity formatter                *)
(* (format_quantity, format_time, format_size), the inverse parser         *)
(* (formatted_str_to_number) and the file selector (file_dialog).          *)
(*                                                                         *)
(* Text is a sequence of one-character strings, so that splitting,         *)
(* rendering and parsing are computed character by character.  Numbers are *)
(* exact rationals [n, d] in lowest terms with d > 0; the int64 factors of *)
(* format_size are kept as powers [base, exp] because 1024^4 does not fit  *)
(* the model checker's integers.  Arithmetic is exact: np.round is         *)
(* round-half-to-even on the exact quotient, and the rounding error of     *)
(* binary floating point is left out.                                      *)
(*                                                                         *)
(* validate_list_of_strings and validate_string_args live in dtype_utils,  *)
(* outside these sources: every call of the model passes them strings      *)
(* without blanks at either end and lists, which they hand back.  The type *)
(* checks of lines 133-136 and 217-222 pass for the same reason.           *)
(***************************************************************************)
EXTENDS Integers, Sequences, FiniteSets, TLC

VARIABLES
    fn,                \* the function the caller invoked
    pc,                \* the position of the call in progress
    value,             \* format_quantity: value
    unit_names,        \* format_quantity: unit_names
    factors,           \* format_quantity: factors
    decimals,          \* format_quantity: decimals (Nothing until bound)
    index,             \* format_quantity: the local index
    str_val,           \* formatted_str_to_number: str_val
    magnitude_names,   \* formatted_str_to_number: magnitude_names
    magnitude_values,  \* formatted_str_to_number: magnitude_values
    separator,         \* formatted_str_to_number: separator
    environ,           \* file_dialog: the names set in os.environ
    importable,        \* file_dialog: the GUI packages that can be imported
    file_filter,       \* file_dialog: file_filter
    caption,           \* file_dialog: caption
    dialog_path,       \* file_dialog: what the user picks in a GUI dialog
    stdin,             \* file_dialog: what the user types at the prompt
    effects,           \* file_dialog: the side effects so far, in order
    ret                \* what the call returned or raised

vars == <<fn, pc, value, unit_names, factors, decimals, index, str_val,
          magnitude_names, magnitude_values, separator, environ, importable,
          file_filter, caption, dialog_path, stdin, effects, ret>>

fq_vars == <<value, unit_names, factors, decimals, index>>
fs_vars == <<str_val, magnitude_names, magnitude_values, separator>>
fd_vars == <<environ, importable, file_filter, caption, dialog_path, stdin, effects>>

----------------------------------------------------------------------------
(* Bounds of the model *)

MaxUnits == 2
MaxDecimals == 3
MaxTextLen == 4

----------------------------------------------------------------------------
(* Numbers *)

Abs(x) == IF x < 0 THEN -x ELSE x

Max(a, b) == IF a > b THEN a ELSE b

RECURSIVE Gcd(_, _)
Gcd(a, b) == IF b = 0 THEN a ELSE Gcd(b, a % b)

\* The rational n/d in lowest terms, d # 0.
R(n, d) ==
    LET g == Gcd(Abs(n), Abs(d))
        s == IF d < 0 THEN -1 ELSE 1
    IN  [n |-> (s * n) \div g, d |-> (s * d) \div g]

RECURSIVE Pow10(_)
Pow10(k) == IF k = 0 THEN 1 ELSE 10 * Pow10(k - 1)

\* base ** exp as an int64 value (numpy, line 190).
IntPow(base, exp) == [base |-> base, exp |-> exp]

IsIntPow(f) == "base" \in DOMAIN f

RECURSIVE IntLessPow(_, _, _)
\* m < base^exp for an integer m, without computing base^exp.
IntLessPow(m, base, exp) ==
    IF exp = 0 THEN m < 1 ELSE IntLessPow(m \div base, base, exp - 1)

\* Python's a < b.
Less(a, b) ==
    IF IsIntPow(b) THEN IntLessPow(a.n \div a.d, b.base, b.exp)
    ELSE a.n * b.d < b.n * a.d

\* Python's a / b (true division; b is not zero).
Quot(a, b) ==
    IF IsIntPow(b) THEN R(a.n, a.d * (b.base ^ b.exp))
    ELSE R(a.n * b.d, a.d * b.n)

\* Python's a * b.
Times(a, b) == R(a.n * b.n, a.d * b.d)

Minus(a, b) == R(a.n * b.d - b.n * a.d, a.d * b.d)

\* The integer nearest to n/d (d > 0), a tie going to the even one.
RoundHalfEven(n, d) ==
    LET q == n \div d
        r == n % d
    IN  IF 2 * r < d THEN q
        ELSE IF 2 * r > d THEN q + 1
        ELSE IF q % 2 = 0 THEN q ELSE q + 1

\* numpy.round(x, dec): m stands for m / 10^dec; a negative x that rounds to
\* zero keeps its sign (-0.0).
np_round(x, dec) ==
    LET m == RoundHalfEven(x.n * Pow10(dec), x.d)
    IN  [m |-> m, dec |-> dec, neg |-> x.n < 0]

----------------------------------------------------------------------------
(* Text *)

Digits == <<"0", "1", "2", "3", "4", "5", "6", "7", "8", "9">>

DigitChars == {Digits[i] : i \in 1..10}

DigitValue(c) == (CHOOSE i \in 1..10 : Digits[i] = c) - 1

RECURSIVE IntStr(_)
\* The decimal digits of k >= 0.
IntStr(k) == IF k < 10 THEN <<Digits[k + 1]>>
             ELSE Append(IntStr(k \div 10), Digits[(k % 10) + 1])

RECURSIVE Padded(_, _)
\* The digits of f < 10^width, with zeros in front to the given width.
Padded(f, width) ==
    IF width = 0 THEN <<>>
    ELSE Append(Padded(f \div 10, width - 1), Digits[(f % 10) + 1])

RECURSIVE FracStr(_, _)
\* The digits of f / 10^dec after the point, trailing zeros dropped, at
\* least one digit kept.
FracStr(f, dec) ==
    IF dec = 0 THEN <<"0">>
    ELSE IF dec > 1 /\ f % 10 = 0 THEN FracStr(f \div 10, dec - 1)
    ELSE Padded(f, dec)

\* '{}'.format(numpy.float64): the shortest decimal text of the value, always
\* with a fractional part (magnitudes in [1e-4, 1e16), where Python does not
\* switch to exponent notation).
FloatStr(r) ==
    LET a == Abs(r.m)
        p == Pow10(r.dec)
    IN  (IF r.neg THEN <<"-">> ELSE <<>>)
        \o IntStr(a \div p) \o <<".">> \o FracStr(a % p, r.dec)

\* Python's s.strip() for the blank character.
RECURSIVE LStrip(_)
LStrip(s) == IF s # <<>> /\ Head(s) = " " THEN LStrip(Tail(s)) ELSE s

RECURSIVE RStrip(_)
RStrip(s) == IF s # <<>> /\ s[Len(s)] = " " THEN RStrip(SubSeq(s, 1, Len(s) - 1)) ELSE s

Strip(s) == RStrip(LStrip(s))

RECURSIVE DigitsValue(_)
\* The integer a sequence of digit characters writes.
DigitsValue(s) ==
    IF s = <<>> THEN 0
    ELSE 10 * DigitsValue(SubSeq(s, 1, Len(s) - 1)) + DigitValue(s[Len(s)])

\* Python's float(s), for the literals [blanks][sign]digits[.digits][blanks]
\* with at least one digit: every other text over digits, point, sign, blank
\* and the letters of the model's alphabet is rejected with ValueError.  (The
\* exponent, inf, nan and underscore forms need characters the model's texts
\* do not hold.)
ParseReal(s) ==
    LET t == Strip(s)
        signed == t # <<>> /\ Head(t) \in {"+", "-"}
        u == IF signed THEN Tail(t) ELSE t
        points == {i \in 1..Len(u) : u[i] = "."}
        digits == SelectSeq(u, LAMBDA c : c \in DigitChars)
        wellformed == /\ \A i \in 1..Len(u) : u[i] \in DigitChars \cup {"."}
                      /\ Cardinality(points) <= 1
                      /\ digits # <<>>
        after == IF points = {} THEN 0 ELSE Len(u) - (CHOOSE i \in points : TRUE)
        mag == R(DigitsValue(digits), Pow10(after))
    IN  IF ~wellformed THEN [ok |-> FALSE, val |-> R(0, 1)]
        ELSE [ok |-> TRUE,
              val |-> IF signed /\ Head(t) = "-" THEN R(-mag.n, mag.d) ELSE mag]

IsPrefix(p, s) == Len(p) <= Len(s) /\ SubSeq(s, 1, Len(p)) = p

RECURSIVE SplitFrom(_, _, _)
SplitFrom(s, sep, cur) ==
    IF s = <<>> THEN <<cur>>
    ELSE IF IsPrefix(sep, s)
         THEN <<cur>> \o SplitFrom(SubSeq(s, Len(sep) + 1, Len(s)), sep, <<>>)
         ELSE SplitFrom(Tail(s), sep, Append(cur, Head(s)))

\* Python's s.split(sep) for a non-empty sep: the pieces between the
\* occurrences of sep, found left to right.
Split(s, sep) == SplitFrom(s, sep, <<>>)

----------------------------------------------------------------------------
(* What a call gives back *)

NoRet == [kind |-> "pending", exc |-> "", text |-> <<>>, num |-> R(0, 1), path |-> ""]

Raise(e) == [NoRet EXCEPT !.kind = "raise", !.exc = e]

RetStr(t) == [NoRet EXCEPT !.kind = "str", !.text = t]

RetNum(x) == [NoRet EXCEPT !.kind = "num", !.num = x]

RetPath(p) == [NoRet EXCEPT !.kind = "path", !.path = p]

RetNone == [NoRet EXCEPT !.kind = "None"]

\* An optional value: Nothing for Python's None or a left-out argument.
Nothing == <<>>

Some(x) == <<x>>

----------------------------------------------------------------------------
(* format_quantity, format_time, format_size *)

msec == <<"m", "s", "e", "c">>
sec == <<"s", "e", "c">>
mins == <<"m", "i", "n", "s">>
hours == <<"h", "o", "u", "r", "s">>

\* The default of the decimals parameter of format_quantity.
format_quantity_decimals == 2

\* The default of the decimals parameter of format_time.
format_time_decimals == 2

\* The default of the decimals parameter of format_size.
format_size_decimals == 2

format_time_units == <<msec, sec, mins, hours>>

format_time_factors == <<R(1, 1000), R(1, 1), R(60, 1), R(3600, 1)>>

format_size_units ==
    <<(<<"b", "y", "t", "e", "s">>), (<<"k", "B">>), (<<"M", "B">>),
      (<<"G", "B">>), (<<"T", "B">>)>>

\* Decimal multiples in place of the binary ones.
format_size_factors_decimal == [i \in 1..Len(format_size_units) |-> IntPow(1000, i - 1)]

\* 1024 ** np.arange(len(units), dtype=np.int64)
format_size_factors == [i \in 1..Len(format_size_units) |-> IntPow(1024, i - 1)]

\* A length check that lets a longer list of names through.
format_quantity_check_fewer(names, facs) ==
    IF Len(names) < Len(facs) THEN Raise("ValueError") ELSE NoRet

\* The length check of format_quantity: what it raises, if anything.
format_quantity_check(names, facs) ==
    IF Len(names) # Len(facs) THEN Raise("ValueError") ELSE NoRet

\* A scan that stops at a factor equal to the value.
scan_test_inclusive(v, val) == Less(v, val) \/ (~IsIntPow(val) /\ v = val)

\* The comparison of the scan.
scan_test(v, val) == Less(v, val)

RECURSIVE scan_factors(_, _, _)
\* The loop over enumerate(factors), entered at the 0-based position i: the
\* value of index when the loop ends.  facs is not empty.
scan_factors(v, facs, i) ==
    IF scan_test(v, facs[i + 1]) THEN i - 1
    ELSE IF i + 1 = Len(facs) THEN i
    ELSE scan_factors(v, facs, i + 1)

\* index = max(0, index)
clamp_index(i) == Max(0, i)

\* A result that names the first unit whatever the index.
format_result_first_name(v, names, facs, dec, i) ==
    FloatStr(np_round(Quot(v, facs[i + 1]), dec)) \o <<" ">> \o names[1]

\* '{} {}'.format(np.round(value / factors[index], decimals), unit_names[index])
format_result(v, names, facs, dec, i) ==
    FloatStr(np_round(Quot(v, facs[i + 1]), dec)) \o <<" ">> \o names[i + 1]

format_time ==
    /\ pc = "format_time"
    /\ unit_names' = format_time_units
    /\ factors' = format_time_factors
    /\ decimals' = IF decimals = Nothing THEN Some(format_time_decimals) ELSE decimals
    /\ pc' = "format_quantity"
    /\ UNCHANGED <<fn, value, index, ret, fs_vars, fd_vars>>

format_size ==
    /\ pc = "format_size"
    /\ unit_names' = format_size_units
    /\ factors' = format_size_factors
    /\ decimals' = IF decimals = Nothing THEN Some(format_size_decimals) ELSE decimals
    /\ pc' = "format_quantity"
    /\ UNCHANGED <<fn, value, index, ret, fs_vars, fd_vars>>

\* Lines 133-140: the argument checks, then index = None.
format_quantity_validate ==
    /\ pc = "format_quantity"
    /\ decimals' = IF decimals = Nothing THEN Some(format_quantity_decimals) ELSE decimals
    /\ index' = Nothing
    /\ LET r == format_quantity_check(unit_names, factors)
       IN  IF r.kind = "raise"
           THEN ret' = r /\ pc' = "returned"
           ELSE ret' = ret /\ pc' = "fq_scan"
    /\ UNCHANGED <<fn, value, unit_names, factors, fs_vars, fd_vars>>

\* Lines 142-147: the scan and the clamp.  With no factor the loop leaves
\* index None and max(0, None) raises TypeError.
format_quantity_scan ==
    /\ pc = "fq_scan"
    /\ IF factors = <<>>
       THEN index' = index /\ ret' = Raise("TypeError") /\ pc' = "returned"
       ELSE /\ index' = Some(clamp_index(scan_factors(value, factors, 0)))
            /\ ret' = ret
            /\ pc' = "fq_format"
    /\ UNCHANGED <<fn, value, unit_names, factors, decimals, fs_vars, fd_vars>>

\* Line 149.
format_quantity_return ==
    /\ pc = "fq_format"
    /\ ret' = RetStr(format_result(value, unit_names, factors, decimals[1], index[1]))
    /\ pc' = "returned"
    /\ UNCHANGED <<fn, fq_vars, fs_vars, fd_vars>>

----------------------------------------------------------------------------
(* formatted_str_to_number *)

\* A check that refuses only a text with no separator.
bad_components_fewer(components) == Len(components) < 2

\* Line 227: whether the split text is refused.
bad_components(components) == Len(components) # 2

\* A product that drops the scaling.
scaled_not(scaling, number) == number

\* Line 233: scaling * number.
scaled(scaling, number) == Times(scaling, number)

\* A return that swallows the error of float().
matched_caught(scaling, text) ==
    LET p == ParseReal(text)
    IN  IF p.ok THEN RetNum(scaled(scaling, p.val)) ELSE RetNone

\* Line 233: return scaling * float(components[0]); the ValueError of float()
\* is not caught.
matched(scaling, text) ==
    LET p == ParseReal(text)
    IN  IF p.ok THEN RetNum(scaled(scaling, p.val)) ELSE Raise("ValueError")

\* A scan that returns on the last matching name.
scan_units_last(names, vals, components, i) ==
    LET m == {j \in i..Len(names) : names[j] = components[2]}
    IN  IF m = {} THEN RetNone
        ELSE matched(vals[CHOOSE j \in m : \A k \in m : k <= j], components[1])

RECURSIVE scan_units(_, _, _, _)
\* Lines 230-233: the scan of zip(magnitude_names, magnitude_values) from the
\* 1-based position i.  float() runs only once a name has matched.
scan_units(names, vals, components, i) ==
    IF i > Len(names) \/ i > Len(vals) THEN RetNone
    ELSE IF names[i] = components[2] THEN matched(vals[i], components[1])
    ELSE scan_units(names, vals, components, i + 1)

\* Lines 223-233.  str.split raises ValueError for an empty separator.
formatted_str_to_number_result(text, names, vals, sep) ==
    IF Len(names) # Len(vals) THEN Raise("ValueError")
    ELSE IF sep = <<>> THEN Raise("ValueError")
    ELSE LET components == Split(text, sep)
         IN  IF bad_components(components) THEN Raise("ValueError")
             ELSE scan_units(names, vals, components, 1)

formatted_str_to_number ==
    /\ pc = "formatted_str_to_number"
    /\ ret' = formatted_str_to_number_result(str_val, magnitude_names,
                                             magnitude_values, separator)
    /\ pc' = "done"
    /\ UNCHANGED <<fn, fq_vars, fs_vars, fd_vars>>

\* The round trip: the text format_quantity returned is parsed back with the
\* table it was formatted with and the default separator.
round_trip ==
    /\ pc = "returned"
    /\ fn = "format_quantity"
    /\ ret.kind = "str"
    /\ str_val' = ret.text
    /\ magnitude_names' = unit_names
    /\ magnitude_values' = factors
    /\ separator' = <<" ">>
    /\ ret' = NoRet
    /\ pc' = "formatted_str_to_number"
    /\ UNCHANGED <<fn, fq_vars, fd_vars>>

----------------------------------------------------------------------------
(* file_dialog *)

\* An argument of file_dialog: its Python type and, for a string, its text.
StrParam(t) == [type |-> "str", val |-> t]

NoneParam == [type |-> "NoneType", val |-> ""]

IntParam == [type |-> "int", val |-> ""]

\* A check that looks at SSH_CLIENT alone.
check_ssh_client_only(env) == "SSH_CLIENT" \in env

check_ssh(env) == "SSH_CLIENT" \in env \/ "SSH_TTY" \in env

\* Lines 57-60: whether the arguments are refused.
bad_params(params) ==
    \E i \in 1..Len(params) :
        params[i].type # "NoneType" /\ params[i].type # "str"

\* warnings.warn(message, category): a category that is neither None nor a
\* Warning subclass raises TypeError.
warn(category) ==
    IF category.type \in {"NoneType", "Warning"} THEN RetNone ELSE Raise("TypeError")

\* Lines 64-90, the GUI attempts: the side effects, and what the block
\* returns or raises (pending when control falls through to the prompt).
\* Line 67 passes its second line of text as the category of the warning.
gui_attempts(pkgs, picked) ==
    IF "PyQt5" \in pkgs
    THEN [effects |-> <<"import PyQt5", "QtWidgets.QFileDialog">>,
          ret |-> RetPath(picked)]
    ELSE IF warn(StrParam("The code will check for PyQt4.")).kind = "raise"
    THEN [effects |-> <<"import PyQt5", "warn">>, ret |-> Raise("TypeError")]
    ELSE IF "PyQt4" \in pkgs
    THEN [effects |-> <<"import PyQt5", "warn", "import PyQt4", "QtGui.QFileDialog">>,
          ret |-> RetPath(picked)]
    ELSE IF warn(NoneParam).kind = "raise"
    THEN [effects |-> <<"import PyQt5", "warn", "import PyQt4", "warn">>,
          ret |-> Raise("TypeError")]
    ELSE [effects |-> <<"import PyQt5", "warn", "import PyQt4", "warn">>,
          ret |-> NoRet]

\* Lines 57-60.
file_dialog_params ==
    /\ pc = "file_dialog"
    /\ IF bad_params(<<file_filter, caption>>)
       THEN ret' = Raise("TypeError") /\ pc' = "done"
       ELSE ret' = ret /\ pc' = "fd_branch"
    /\ UNCHANGED <<fn, fq_vars, fs_vars, fd_vars>>

\* Lines 63-90, with no remote shell.
file_dialog_gui ==
    /\ pc = "fd_branch"
    /\ ~check_ssh(environ)
    /\ LET g == gui_attempts(importable, dialog_path)
       IN  /\ effects' = effects \o g.effects
           /\ ret' = g.ret
           /\ pc' = IF g.ret.kind = "pending" THEN "fd_input" ELSE "done"
    /\ UNCHANGED <<fn, fq_vars, fs_vars, environ, importable, file_filter,
                   caption, dialog_path, stdin>>

\* Line 63, under a remote shell: the GUI block is skipped.
file_dialog_remote ==
    /\ pc = "fd_branch"
    /\ check_ssh(environ)
    /\ pc' = "fd_input"
    /\ UNCHANGED <<fn, fq_vars, fs_vars, fd_vars, ret>>

\* Lines 92-94: input() raises EOFError at the end of the input.
file_dialog_input ==
    /\ pc = "fd_input"
    /\ effects' = Append(effects, "input")
    /\ ret' = IF stdin.eof THEN Raise("EOFError") ELSE RetPath(stdin.line)
    /\ pc' = "done"
    /\ UNCHANGED <<fn, fq_vars, fs_vars, environ, importable, file_filter,
                   caption, dialog_path, stdin>>

----------------------------------------------------------------------------
(* The calls the model makes *)

ValueNums == {-3, 0, 1, 3, 65, 90, 120, 1024, 1536, 3600, 7201}

ValueDens == {1, 2, 2000}

Values == {R(n, d) : n \in ValueNums, d \in ValueDens}

FactorVals == {R(1, 2), R(1, 1), R(60, 1), R(1024, 1)}

FactorTables == UNION {[1..k -> FactorVals] : k \in 0..MaxUnits}

AllNames == <<sec, mins, hours, msec>>

NameTables ==
    {SubSeq(AllNames, 1, k) : k \in 0..MaxUnits}
    \cup {<<sec, sec>>, <<sec, (<<"s", "q", " ", "m">>)>>}

DecimalsArgs == {Nothing} \cup {Some(d) : d \in 0..MaxDecimals}

TextAlphabet == {"1", ".", " ", "k", "-"}

Texts ==
    {t \in UNION {[1..k -> TextAlphabet] : k \in 1..MaxTextLen} :
        t[1] # " " /\ t[Len(t)] # " "}

Hz == <<"H", "z">>
kHz == <<"k", "H", "z">>
MHz == <<"M", "H", "z">>

\* The calls of the docstring and of the documented examples.
ExampleParses ==
    {[text |-> t, names |-> <<Hz, kHz, MHz>>,
      vals |-> <<R(1, 1), R(1000, 1), R(1000000, 1)>>, sep |-> <<" ">>] :
        t \in {<<"4", ".", "3", "2", "M", "H", "z">>,
               <<"4", ".", "3", "2", " ", "M", "H", "z">>}}

ParserTables ==
    {[names |-> <<(<<"k">>)>>, vals |-> <<R(1000, 1)>>],
     [names |-> <<(<<"k">>), (<<"k", "k">>)>>, vals |-> <<R(1, 2), R(60, 1)>>],
     [names |-> <<(<<"k">>), (<<"k">>)>>, vals |-> <<R(2, 1), R(3, 1)>>],
     [names |-> <<(<<"k">>)>>, vals |-> <<>>],
     [names |-> <<>>, vals |-> <<>>]}

Separators == {<<" ">>, <<"-">>, <<>>}

Parses ==
    ExampleParses
    \cup {[text |-> t, names |-> tb.names, vals |-> tb.vals, sep |-> sp] :
            t \in Texts, tb \in ParserTables, sp \in Separators}

Params == {StrParam("H5 file (*.h5)"), NoneParam, IntParam}

Picks == {"/data/a.h5", ""}

Typed == {[eof |-> FALSE, line |-> "/data/b.h5"], [eof |-> TRUE, line |-> ""]}

InitFormat ==
    /\ \/ /\ fn = "format_quantity"
          /\ unit_names \in NameTables
          /\ factors \in FactorTables
       \/ /\ fn \in {"format_time", "format_size"}
          /\ unit_names = <<>>
          /\ factors = <<>>
    /\ pc = fn
    /\ value \in Values
    /\ decimals \in DecimalsArgs
    /\ index = Nothing
    /\ str_val = <<>> /\ magnitude_names = <<>> /\ magnitude_values = <<>>
    /\ separator = <<>>
    /\ environ = {} /\ importable = {}
    /\ file_filter = NoneParam /\ caption = NoneParam
    /\ dialog_path = "" /\ stdin \in {[eof |-> TRUE, line |-> ""]}
    /\ effects = <<>>
    /\ ret = NoRet

InitParse ==
    /\ fn = "formatted_str_to_number"
    /\ pc = fn
    /\ \E c \in Parses :
        /\ str_val = c.text
        /\ magnitude_names = c.names
        /\ magnitude_values = c.vals
        /\ separator = c.sep
    /\ value = R(0, 1) /\ unit_names = <<>> /\ factors = <<>>
    /\ decimals = Nothing /\ index = Nothing
    /\ environ = {} /\ importable = {}
    /\ file_filter = NoneParam /\ caption = NoneParam
    /\ dialog_path = "" /\ stdin \in {[eof |-> TRUE, line |-> ""]}
    /\ effects = <<>>
    /\ ret = NoRet

InitDialog ==
    /\ fn = "file_dialog"
    /\ pc = fn
    /\ environ \in SUBSET {"SSH_CLIENT", "SSH_TTY"}
    /\ importable \in SUBSET {"PyQt5", "PyQt4"}
    /\ file_filter \in Params
    /\ caption \in Params
    /\ dialog_path \in Picks
    /\ stdin \in Typed
    /\ effects = <<>>
    /\ value = R(0, 1) /\ unit_names = <<>> /\ factors = <<>>
    /\ decimals = Nothing /\ index = Nothing
    /\ str_val = <<>> /\ magnitude_names = <<>> /\ magnitude_values = <<>>
    /\ separator = <<>>
    /\ ret = NoRet

Init == InitFormat \/ InitParse \/ InitDialog

Next ==
    \/ format_time
    \/ format_size
    \/ format_quantity_validate
    \/ format_quantity_scan
    \/ format_quantity_return
    \/ round_trip
    \/ formatted_str_to_number
    \/ file_dialog_params
    \/ file_dialog_gui
    \/ file_dialog_remote
    \/ file_dialog_input

Spec == Init /\ [][Next]_vars

----------------------------------------------------------------------------
(* Properties of format_quantity *)

\* A table in strictly ascending order.
Ascending(facs) ==
    \A i \in 1..(Len(facs) - 1) :
        IF IsIntPow(facs[i])
        THEN IsIntPow(facs[i + 1]) /\ facs[i].exp < facs[i + 1].exp
        ELSE ~IsIntPow(facs[i + 1]) /\ Less(facs[i], facs[i + 1])

\* The 0-based positions i with facs[i] <= v and (i last or v < facs[i+1]),
\* and position 0 for a v below the first factor.
Brackets(v, facs) ==
    {i \in 0..(Len(facs) - 1) :
        \/ /\ ~Less(v, facs[i + 1])
           /\ i + 1 = Len(facs) \/ Less(v, facs[i + 2])
        \/ i = 0 /\ Less(v, facs[1])}

\* C1: for a strictly ascending table and a value >= 0, format_quantity
\* selects the one index i with factors[i] <= value and (i last or
\* value < factors[i+1]), index 0 for a value below factors[0] and index i
\* (not i-1) for a value equal to factors[i]; the text it returns is the
\* value divided by factors[i], rounded, and the name unit_names[i].
C1_IndexSelection ==
    (index # Nothing /\ Ascending(factors) /\ value.n >= 0) =>
        /\ Brackets(value, factors) = {index[1]}
        /\ Less(value, factors[1]) => index[1] = 0
        /\ \A i \in 0..(Len(factors) - 1) :
              (~IsIntPow(factors[i + 1]) /\ factors[i + 1] = value) => index[1] = i
        /\ pc = "returned" =>
              /\ ret.kind = "str"
              /\ ret.text = FloatStr(np_round(Quot(value, factors[index[1] + 1]),
                                              decimals[1]))
                            \o <<" ">> \o unit_names[index[1] + 1]

\* A value equal to the second factor of a two-row table has been formatted
\* with the second row.
C1_Witness ==
    /\ fn = "format_quantity" /\ pc = "returned"
    /\ factors = <<R(1, 1), R(60, 1)>> /\ value = R(60, 1)
    /\ index = Some(1) /\ ret.kind = "str"

\* C7: format_quantity raises ValueError whenever the two lists differ in
\* length, whatever the value and decimals, before an index is selected or a
\* text produced.
C7_LengthMismatchRaises ==
    (fn = "format_quantity" /\ Len(unit_names) # Len(factors)
        /\ pc # "format_quantity") =>
        /\ pc = "returned"
        /\ ret = Raise("ValueError")
        /\ index = Nothing

C7_Witness ==
    /\ fn = "format_quantity" /\ pc = "returned"
    /\ Len(unit_names) > Len(factors) /\ factors # <<>>
    /\ ret.kind = "raise" /\ ret.exc = "ValueError"

Text_0_5_msec == <<"0", ".", "5", " ", "m", "s", "e", "c">>
Text_1_08_mins == <<"1", ".", "0", "8", " ", "m", "i", "n", "s">>
Text_1_0_hours == <<"1", ".", "0", " ", "h", "o", "u", "r", "s">>
Text_1_0_kB == <<"1", ".", "0", " ", "k", "B">>
Text_1_5_kB == <<"1", ".", "5", " ", "k", "B">>
Text_0_0_bytes == <<"0", ".", "0", " ", "b", "y", "t", "e", "s">>
Text_1_5_mins == <<"1", ".", "5", " ", "m", "i", "n", "s">>

\* What a wrapper called without decimals has returned for value v.
Gives(wrapper, v, text) ==
    (fn = wrapper /\ value = v /\ decimals = Some(2) /\ pc = "returned") =>
        ret = RetStr(text)

C10_Tables ==
    /\ (fn = "format_time" /\ pc # "format_time") =>
          /\ unit_names = <<msec, sec, mins, hours>>
          /\ factors = <<R(1, 1000), R(1, 1), R(60, 1), R(3600, 1)>>
    /\ (fn = "format_size" /\ pc # "format_size") =>
          /\ unit_names = <<(<<"b", "y", "t", "e", "s">>), (<<"k", "B">>),
                            (<<"M", "B">>), (<<"G", "B">>), (<<"T", "B">>)>>
          /\ factors = <<IntPow(1024, 0), IntPow(1024, 1), IntPow(1024, 2),
                         IntPow(1024, 3), IntPow(1024, 4)>>

C10_Examples ==
    /\ Gives("format_time", R(1, 2000), Text_0_5_msec)
    /\ Gives("format_time", R(65, 1), Text_1_08_mins)
    /\ Gives("format_time", R(3600, 1), Text_1_0_hours)
    /\ Gives("format_size", R(1024, 1), Text_1_0_kB)
    /\ Gives("format_size", R(1536, 1), Text_1_5_kB)
    /\ Gives("format_size", R(0, 1), Text_0_0_bytes)

\* A wrapper called without decimals binds decimals to 2.
C10_Default ==
    (fn \in {"format_time", "format_size"} /\ pc = fn /\ decimals = Nothing) =>
        decimals' = Some(2)

\* C10: format_time and format_size call format_quantity with their fixed
\* tables (msec 0.001, sec 1, mins 60, hours 3600; bytes 1, kB 1024, MB 1024^2,
\* GB 1024^3, TB 1024^4) and decimals 2 by default, so that format_time gives
\* "0.5 msec" for 0.0005, "1.08 mins" for 65, "1.0 hours" for 3600 and
\* format_size gives "1.0 kB" for 1024, "1.5 kB" for 1536, "0.0 bytes" for 0.
C10_Wrappers == [](C10_Tables /\ C10_Examples) /\ [][C10_Default]_vars

C10_Witness ==
    /\ fn = "format_time" /\ value = R(65, 1) /\ pc = "returned"
    /\ ret = RetStr(Text_1_08_mins)

----------------------------------------------------------------------------
(* Properties of formatted_str_to_number and of the round trip *)

\* The scaled value value / factors[index] has at most decimals digits
\* after the point.
ExactAtDecimals ==
    LET x == Quot(value, factors[index[1] + 1])
    IN  (x.n * Pow10(decimals[1])) % x.d = 0

\* The parser returned a number within 10^-decimals of value.
ReturnsValue ==
    /\ ret.kind = "num"
    /\ LET diff == Minus(ret.num, value)
       IN  Abs(diff.n) * Pow10(decimals[1]) <= diff.d

\* A round trip has ended: format_quantity accepted the call and the text it
\* returned went through formatted_str_to_number with the same table.
RoundTripDone == fn = "format_quantity" /\ pc = "done"

Contains(name, sep) ==
    \E i \in 1..Len(name) : IsPrefix(sep, SubSeq(name, i, Len(name)))

DistinctNames(names) ==
    \A i, j \in 1..Len(names) : names[i] = names[j] => i = j

\* C2 as stated: for every table both functions accept and every value whose
\* scaled value is exact at decimals digits, parsing the formatted text
\* returns the value within 10^-decimals.  (Stated here for the tables that
\* also keep the unit table's own rules, ascending factors and distinct
\* names, so that what refutes it is no oddity of the table.)
C2_Original ==
    (/\ RoundTripDone
     /\ ExactAtDecimals
     /\ Ascending(factors)
     /\ DistinctNames(unit_names)) => ReturnsValue

\* C2, amended: the same, for tables whose names are pairwise distinct and do
\* not contain the separator.
C2_RoundTrip ==
    (/\ RoundTripDone
     /\ ExactAtDecimals
     /\ DistinctNames(unit_names)
     /\ \A i \in 1..Len(unit_names) : ~Contains(unit_names[i], separator)) =>
        ReturnsValue

\* 90 formatted with a 60-fold second unit, read back as 90.
C2_Witness ==
    /\ RoundTripDone /\ ExactAtDecimals
    /\ value = R(90, 1) /\ factors = <<R(1, 2), R(60, 1)>>
    /\ unit_names = <<sec, mins>>
    /\ index = Some(1)
    /\ ret.kind = "num" /\ ret.num = R(90, 1)

\* The call format_quantity(90, ['sec', 'mins'], [1, 60]) and its parse.
Is90Seconds ==
    /\ RoundTripDone
    /\ value = R(90, 1)
    /\ unit_names = <<sec, mins>>
    /\ factors = <<R(1, 1), R(60, 1)>>
    /\ decimals = Some(2)

\* C3 as stated: 90 with ['sec', 'mins'] and [1, 60] formats to "1.5 mins",
\* and parsing that text with the same table returns 1.5.
C3_Original ==
    Is90Seconds =>
        /\ str_val = Text_1_5_mins
        /\ ret.kind = "num" /\ ret.num = R(3, 2)

\* C3, amended: 90 with ['sec', 'mins'] and [1, 60] formats to "1.5 mins",
\* and parsing that text with the same table returns 90 (60 * 1.5).
C3_ParsesBackTo90 ==
    Is90Seconds =>
        /\ str_val = Text_1_5_mins
        /\ ret.kind = "num" /\ ret.num = R(90, 1)

C3_Witness == Is90Seconds /\ str_val = Text_1_5_mins /\ ret.kind = "num"

\* A direct call of the parser with a table it accepts has ended.
ParsedWithValidTable ==
    /\ fn = "formatted_str_to_number" /\ pc = "done"
    /\ Len(magnitude_names) = Len(magnitude_values)

\* How often the one-character separator occurs in the text.
Occurrences(text, sep) == Cardinality({i \in 1..Len(text) : text[i] = sep[1]})

\* The two pieces of a text that holds its one-character separator once.
Pieces(text, sep) ==
    LET at == CHOOSE i \in 1..Len(text) : text[i] = sep[1]
    IN  <<SubSeq(text, 1, at - 1), SubSeq(text, at + 1, Len(text))>>

TwoPieces ==
    /\ ParsedWithValidTable
    /\ Len(separator) = 1
    /\ Occurrences(str_val, separator) = 1

Matches == {i \in 1..Len(magnitude_names) :
               magnitude_names[i] = Pieces(str_val, separator)[2]}

FirstMatch == CHOOSE i \in Matches : \A j \in Matches : i <= j

\* C4: with a valid table, formatted_str_to_number raises ValueError whenever
\* the text does not split into exactly two pieces on the separator (the
\* separator absent, or present more than once), as for "4.32MHz" with ' ',
\* and returns no number then.
C4_SplitError ==
    /\ (/\ ParsedWithValidTable
        /\ Len(separator) = 1
        /\ Occurrences(str_val, separator) # 1) => ret = Raise("ValueError")
    /\ (ParsedWithValidTable /\ str_val = <<"4", ".", "3", "2", "M", "H", "z">>)
          => ret = Raise("ValueError")

\* A text with two separators has been refused.
C4_Witness ==
    /\ ParsedWithValidTable
    /\ str_val = <<"1", " ", " ", "k">> /\ separator = <<" ">>
    /\ magnitude_names = <<(<<"k">>)>>
    /\ ret = Raise("ValueError")

\* C5 as stated: a text of two pieces whose first piece is no number literal
\* makes the parser raise, whether or not the second piece is a unit name.
\* (Stated here for a table with at least one row and a text with two
\* non-empty pieces, so that what refutes it is an ordinary call.)
C5_Original ==
    (/\ TwoPieces
     /\ magnitude_names # <<>>
     /\ Pieces(str_val, separator)[1] # <<>>
     /\ Pieces(str_val, separator)[2] # <<>>
     /\ ~ParseReal(Pieces(str_val, separator)[1]).ok) =>
        ret = Raise("ValueError")

\* C5, amended: a text of two pieces whose first piece is no number literal
\* makes the parser raise when the second piece is a unit name of the table.
C5_ParseError ==
    (/\ TwoPieces
     /\ ~ParseReal(Pieces(str_val, separator)[1]).ok
     /\ Matches # {}) => ret = Raise("ValueError")

C5_Witness ==
    /\ TwoPieces
    /\ str_val = <<"k", " ", "k">>
    /\ magnitude_names = <<(<<"k">>)>>
    /\ ret = Raise("ValueError")

\* C6: for a text of two pieces, a unit text that equals no name of the table
\* gives None and no error; when a name matches, the result is the value of
\* the first matching name times the parsed number.
C6_LookupMiss ==
    TwoPieces =>
        /\ Matches = {} => ret = RetNone
        /\ (Matches # {} /\ ParseReal(Pieces(str_val, separator)[1]).ok) =>
              ret = RetNum(Times(magnitude_values[FirstMatch],
                                 ParseReal(Pieces(str_val, separator)[1]).val))

\* A unit named twice: the first row's value was used.
C6_Witness ==
    /\ TwoPieces
    /\ str_val = <<"1", " ", "k">>
    /\ magnitude_names = <<(<<"k">>), (<<"k">>)>>
    /\ magnitude_values = <<R(2, 1), R(3, 1)>>
    /\ ret = RetNum(R(2, 1))

----------------------------------------------------------------------------
(* Properties of file_dialog *)

GuiEffects == {"import PyQt5", "import PyQt4", "QtWidgets.QFileDialog",
               "QtGui.QFileDialog", "warn"}

StringArgs == file_filter.type = "str" /\ caption.type = "str"

\* C8: with no SSH_CLIENT or SSH_TTY, file_dialog tries PyQt5, falls back to
\* PyQt4 when PyQt5 cannot be imported and returns the path picked there, and
\* with neither prompts on the standard input and returns the typed path; in
\* each case it returns a path and does not raise.
C8_Fallback ==
    (/\ fn = "file_dialog" /\ pc = "done" /\ StringArgs
     /\ "SSH_CLIENT" \notin environ /\ "SSH_TTY" \notin environ) =>
        /\ "PyQt5" \in importable =>
              /\ ret = RetPath(dialog_path)
              /\ effects = <<"import PyQt5", "QtWidgets.QFileDialog">>
        /\ ("PyQt5" \notin importable /\ "PyQt4" \in importable) =>
              /\ ret = RetPath(dialog_path)
              /\ effects[Len(effects)] = "QtGui.QFileDialog"
        /\ (importable = {} /\ ~stdin.eof) =>
              /\ ret = RetPath(stdin.line)
              /\ effects[Len(effects)] = "input"

\* C9: with SSH_CLIENT or SSH_TTY set and both arguments strings, file_dialog
\* imports no GUI toolkit and opens no dialog: it goes to the prompt on the
\* standard input and returns the typed path.
C9_RemoteShell ==
    (/\ fn = "file_dialog" /\ StringArgs
     /\ "SSH_CLIENT" \in environ \/ "SSH_TTY" \in environ) =>
        /\ \A i \in 1..Len(effects) : effects[i] \notin GuiEffects
        /\ pc = "done" =>
              /\ effects = <<"input">>
              /\ ~stdin.eof => ret = RetPath(stdin.line)

C9_Witness ==
    /\ fn = "file_dialog" /\ StringArgs /\ pc = "done"
    /\ environ = {"SSH_TTY"} /\ importable = {"PyQt5", "PyQt4"}
    /\ ret = RetPath("/data/b.h5")

====
